---- MODULE Spec2Model ----
(***************************************************************************)
(* Stock / inventory lifecycle engine of fixadd/stok (src/app/__init__.py, *)
(* src/app/models.py).                                                     *)
(*                                                                         *)
(* The persisted tables are modelled as sequences of rows (row id = index):*)
(* inventory_items, inventory_events, stock_items, stock_logs,             *)
(* activity_logs, request_orders.  The two tables whose rows are deleted,  *)
(* inventory_licenses and users, are functions from the ids of the rows    *)
(* that exist to the rows.  Every HTTP handler is one action that          *)
(* performs the whole handler up to its commit; `last` is the response of  *)
(* the call just handled.                                                  *)
(* Columns that no handler reads back to take a decision (notes, titles,   *)
(* reference codes, actors, timestamps) are left out of the rows.          *)
(* Turkish labels are written in ASCII transliteration.                   *)
(* Python dicts are functions whose DOMAIN is the set of keys present;     *)
(* Python None is the value None.                                          *)
(***************************************************************************)
EXTENDS Integers, Sequences, FiniteSets, TLC

VARIABLES inventory_items, inventory_events, inventory_licenses, stock_items,
          stock_logs, activity_logs, request_orders, users, last, pc

vars == <<inventory_items, inventory_events, inventory_licenses, stock_items,
          stock_logs, activity_logs, request_orders, users, last, pc>>

tables == <<inventory_items, inventory_events, inventory_licenses, stock_items,
            stock_logs, activity_logs, request_orders, users>>

(***************************************************************************)
(* Bounds of the model.                                                    *)
(***************************************************************************)
MaxItems == 1
MaxEvents == 4

(***************************************************************************)
(* Values and dict helpers.                                                *)
(***************************************************************************)
None == "<None>"

EmptyDict == [k \in {} |-> ""]
\* a table without rows, for the tables that are functions of the row id
NoRows == << >>

\* dict.get(key)
Get(d, k) == IF k \in DOMAIN d THEN d[k] ELSE None

\* d[key] = value
Put(d, k, v) == [x \in (DOMAIN d) \cup {k} |-> IF x = k THEN v ELSE d[x]]

\* d.update(e)
DictUpdate(d, e) ==
    [x \in (DOMAIN d) \cup (DOMAIN e) |-> IF x \in DOMAIN e THEN e[x] ELSE d[x]]

\* str.strip() on the strings the model uses: " " is a whitespace-only
\* string and " U2 " a padded one.
strip(s) == CASE s = " " -> ""
              [] s = " U2 " -> "U2"
              [] OTHER -> s

\* {key: value for key, value in d.items() if value}
DropEmpty(d) == [x \in {k \in DOMAIN d : d[k] # "" /\ d[k] # None} |-> d[x]]

INVENTORY_STATUSES == {"aktif", "beklemede", "arizali", "hurda", "stokta"}

STOCK_CATEGORY_LABELS ==
    [envanter |-> "Envanter", cevre_birimi |-> "Cevre Birimi",
     yazici |-> "IP Yazici", lisans |-> "Lisans", talep |-> "Talep",
     manuel |-> "Manuel"]

SYSTEM_ROLE_LEVELS == [user |-> 0, admin |-> 1, superadmin |-> 2]

Field(k, l, r, a) ==
    [key |-> k, label |-> l, required |-> r, assignment_only |-> a]

STOCK_METADATA_FIELDS ==
    [envanter |->
       << Field("inventory_no", "Envanter No", TRUE, FALSE),
          Field("hardware_type", "Donanim Tipi", TRUE, FALSE),
          Field("brand", "Marka", TRUE, FALSE),
          Field("model", "Model", TRUE, FALSE),
          Field("serial_no", "Seri No", FALSE, FALSE),
          Field("computer_name", "Cihaz Adi", FALSE, FALSE),
          Field("factory", "Fabrika", TRUE, TRUE),
          Field("department", "Departman", TRUE, TRUE),
          Field("responsible", "Sorumlu", TRUE, TRUE),
          Field("ifs_no", "IFS No", FALSE, TRUE) >>,
     cevre_birimi |->
       << Field("hardware_type", "Donanim Tipi", TRUE, FALSE),
          Field("brand", "Marka", FALSE, FALSE),
          Field("model", "Model", FALSE, FALSE),
          Field("serial_no", "Seri No", FALSE, FALSE),
          Field("factory", "Fabrika", FALSE, TRUE),
          Field("department", "Departman", FALSE, TRUE),
          Field("responsible", "Sorumlu", TRUE, TRUE) >>,
     yazici |->
       << Field("inventory_no", "Envanter No", TRUE, FALSE),
          Field("brand", "Marka", TRUE, FALSE),
          Field("model", "Model", TRUE, FALSE),
          Field("serial_no", "Seri No", FALSE, FALSE),
          Field("usage_area", "Kullanim Alani", FALSE, TRUE),
          Field("factory", "Fabrika", TRUE, TRUE),
          Field("hostname", "Hostname", FALSE, TRUE),
          Field("ip_address", "IP Adresi", FALSE, TRUE),
          Field("mac_address", "MAC Adresi", FALSE, TRUE),
          Field("responsible", "Sorumlu", TRUE, TRUE) >>,
     lisans |->
       << Field("license_name", "Lisans Adi", TRUE, FALSE),
          Field("license_key", "Lisans Anahtari", TRUE, FALSE),
          Field("inventory_no", "Bagli Envanter", FALSE, FALSE),
          Field("factory", "Fabrika", FALSE, TRUE),
          Field("department", "Departman", FALSE, TRUE),
          Field("responsible", "Sorumlu", FALSE, TRUE) >>,
     talep |->
       << Field("hardware_type", "Donanim Tipi", TRUE, FALSE),
          Field("brand", "Marka", FALSE, FALSE),
          Field("model", "Model", FALSE, FALSE),
          Field("department", "Departman", FALSE, FALSE) >>,
     manuel |->
       << Field("hardware_type", "Donanim Tipi", TRUE, FALSE),
          Field("brand", "Marka", FALSE, FALSE),
          Field("model", "Model", FALSE, FALSE) >>]

\* normalize_stock_category(value, fallback)
normalize_stock_category(value, fallback) ==
    IF value = None \/ value = "" THEN fallback
    ELSE IF strip(value) \in DOMAIN STOCK_CATEGORY_LABELS THEN strip(value)
    ELSE fallback

\* "yazici" in hardware_name.lower(), on the hardware type names of the model
ContainsYazici(name) == name \in {"Yazici"}

\* determine_stock_category_from_inventory(item, fallback="envanter")
determine_stock_category_from_inventory(item) ==
    IF ContainsYazici(item.hardware_type) THEN "yazici" ELSE "envanter"

\* normalize_value, the inner function of prepare_stock_metadata
normalize_value(raw) == IF raw = None THEN "" ELSE strip(raw)

\* the loop over the schema fields of prepare_stock_metadata: the first
\* required field left empty raises ValueError("<label> alani zorunludur.")
RECURSIVE PrepareFields(_, _, _, _, _)
PrepareFields(schema, i, provided, defaults, cleaned) ==
    IF i > Len(schema)
    THEN [ok |-> TRUE, error |-> "", cleaned |-> cleaned]
    ELSE LET field == schema[i]
             v1 == normalize_value(Get(provided, field.key))
             value == IF v1 = "" THEN normalize_value(Get(defaults, field.key))
                      ELSE v1
         IN  IF value = "" /\ field.required
             THEN [ok |-> FALSE, error |-> field.label, cleaned |-> EmptyDict]
             ELSE PrepareFields(schema, i + 1, provided, defaults,
                                IF value # "" THEN Put(cleaned, field.key, value)
                                ELSE cleaned)

\* a validation that accepts a missing required field
prepare_stock_metadata_NoCheck(category, payload, defaults, include_assignment_fields) ==
    [ok |-> TRUE, error |-> "", cleaned |-> DropEmpty(DictUpdate(defaults, payload))]

\* prepare_stock_metadata(category, payload, defaults, include_assignment_fields)
\* A payload that is not a dict is used as {}, so payloads are dicts here.
prepare_stock_metadata(category, payload, defaults, include_assignment_fields) ==
    LET full == IF category \in DOMAIN STOCK_METADATA_FIELDS
                THEN STOCK_METADATA_FIELDS[category] ELSE << >>
        keep(f) == include_assignment_fields \/ ~f.assignment_only
        schema == SelectSeq(full, keep)
        provided == payload
        r == PrepareFields(schema, 1, provided, defaults, EmptyDict)
        extra == {k \in DOMAIN provided :
                     k \notin DOMAIN r.cleaned /\ normalize_value(provided[k]) # ""}
    IN  IF ~r.ok THEN r
        ELSE [ok |-> TRUE, error |-> "",
              cleaned |-> [x \in (DOMAIN r.cleaned) \cup extra |->
                             IF x \in DOMAIN r.cleaned THEN r.cleaned[x]
                             ELSE normalize_value(provided[x])]]

\* a sanitize that drops every value
sanitize_DropsAll(values) == EmptyDict

\* sanitize, the inner function of assign_stock_item
sanitize(values) ==
    [x \in {k \in DOMAIN values : values[k] # None /\ strip(values[k]) # ""} |->
        strip(values[x])]

\* build_inventory_stock_metadata(item)
build_inventory_stock_metadata(item) ==
    [inventory_no |-> item.inventory_no,
     computer_name |-> item.computer_name,
     hostname |-> item.computer_name,
     factory |-> item.factory,
     department |-> item.department,
     hardware_type |-> item.hardware_type,
     brand |-> item.brand,
     model |-> item.model,
     serial_no |-> item.serial_no,
     ifs_no |-> item.ifs_no,
     ip_address |-> item.related_machine_no,
     mac_address |-> item.machine_no,
     responsible |-> item.responsible]

(***************************************************************************)
(* Responses and log rows.                                                 *)
(***************************************************************************)
Resp(op, target, code, error, arg) ==
    [op |-> op, target |-> target, code |-> code, error |-> error, arg |-> arg]

NoResp == Resp("none", 0, 0, "", << >>)

\* the handler returns r: r becomes the last response
Respond(r) == last' = r

\* seed_inventory_data: the events of item_primary and item_retired
SeedEvents ==
    << [item_id |-> 1, event_type |-> "Stok Girisi"],
       [item_id |-> 1, event_type |-> "Atama"],
       [item_id |-> 1, event_type |-> "Bakim"],
       [item_id |-> 2, event_type |-> "Stok Girisi"],
       [item_id |-> 2, event_type |-> "Hurdaya Ayirma"] >>

\* the model follows the program until MaxEvents InventoryEvent rows were
\* added to those of the seed
EventRoom ==
    LET seeded == IF /\ Len(inventory_events) >= Len(SeedEvents)
                     /\ SubSeq(inventory_events, 1, Len(SeedEvents)) = SeedEvents
                  THEN Len(SeedEvents) ELSE 0
    IN  Len(inventory_events) - seeded < MaxEvents

\* the handler returns an error before any write: nothing is committed.
\* The model follows the program while EventRoom holds.
Reject(r) ==
    /\ EventRoom
    /\ Respond(r)
    /\ UNCHANGED <<tables, pc>>

\* record_activity(area, action, metadata): one ActivityLog row
record_activity(acts, area, action, ref) ==
    Append(acts, [area |-> area, action |-> action, ref |-> ref])

\* an event helper that writes the ActivityLog row and no InventoryEvent
add_inventory_event_NoEvent(db, item_id, event_type) ==
    [db EXCEPT !.activity = record_activity(@, "envanter", event_type, item_id)]

\* add_inventory_event(item, event_type): one InventoryEvent row and one
\* ActivityLog row of area "envanter"
add_inventory_event(db, item_id, event_type) ==
    [db EXCEPT
       !.events = Append(@, [item_id |-> item_id, event_type |-> event_type]),
       !.activity = record_activity(@, "envanter", event_type, item_id)]

\* a stock log helper that keeps only the newest StockLog row
record_stock_log_Overwrites(db, stock_id, action, action_type, quantity_change) ==
    [db EXCEPT
       !.logs = <<[stock_item_id |-> stock_id, action |-> action,
                   action_type |-> action_type,
                   quantity_change |-> quantity_change]>>,
       !.activity = record_activity(@, "stok", action, stock_id)]

\* record_stock_log(stock_item, action, action_type, quantity_change): one
\* StockLog row and one ActivityLog row of area "stok"
record_stock_log(db, stock_id, action, action_type, quantity_change) ==
    [db EXCEPT
       !.logs = Append(@, [stock_item_id |-> stock_id, action |-> action,
                           action_type |-> action_type,
                           quantity_change |-> quantity_change]),
       !.activity = record_activity(@, "stok", action, stock_id)]

\* the session of one request: the tables as the handler sees them
Session ==
    [items |-> inventory_items, events |-> inventory_events,
     licenses |-> inventory_licenses, stock |-> stock_items,
     logs |-> stock_logs, activity |-> activity_logs]

\* db.session.commit()
Commit(db) ==
    /\ inventory_items' = db.items
    /\ inventory_events' = db.events
    /\ inventory_licenses' = db.licenses
    /\ stock_items' = db.stock
    /\ stock_logs' = db.logs
    /\ activity_logs' = db.activity

Max(a, b) == IF a >= b THEN a ELSE b
Min(a, b) == IF a <= b THEN a ELSE b

(***************************************************************************)
(* Request inputs.  "" is a missing field or an id that resolves to no     *)
(* row of the reference catalog; "?" is a responsible_user_id of no user.  *)
(***************************************************************************)
InventoryNoOf == <<"ENV-1", "ENV-2", "ENV-3", "ENV-4">>
ItemIds == 1..MaxItems
\* the system_role of the active user of a request: None when nobody is
\* logged in, "misafir" for a value that is no role
Roles == {None, "user", "admin", "misafir", "superadmin"}

\* a payload that passes every check of create_inventory / update_inventory
BasePayload ==
    [inventory_no |-> "", factory |-> "F1", hardware_type |-> "Laptop",
     brand |-> "B1", model |-> "M1", responsible |-> "", department |-> "IT",
     status |-> None]

\* BasePayload with one field missing or unresolvable, one per check
InvalidPayloads ==
    { [BasePayload EXCEPT !.factory = ""],
      [BasePayload EXCEPT !.hardware_type = ""],
      [BasePayload EXCEPT !.brand = ""],
      [BasePayload EXCEPT !.model = ""],
      [BasePayload EXCEPT !.responsible = "?"],
      [BasePayload EXCEPT !.department = ""] }

\* create requests: the next free inventory number with each hardware type
\* and responsible user, a missing number, the first number again, and the
\* invalid payloads
CreatePayloads ==
    { [BasePayload EXCEPT !.inventory_no = InventoryNoOf[Len(inventory_items) + 1],
                          !.hardware_type = h, !.responsible = r] :
         h \in {"Laptop", "Yazici"}, r \in {"", "U1"} }
    \cup { BasePayload, [BasePayload EXCEPT !.inventory_no = InventoryNoOf[1]] }
    \cup { [q EXCEPT !.inventory_no = InventoryNoOf[Len(inventory_items) + 1]] :
             q \in InvalidPayloads }

\* update requests: inventory_no absent (kept) with each status value, no
\* status or an unknown status, one with a responsible user, one with the
\* second inventory number, and the invalid payloads
UpdatePayloads ==
    { [BasePayload EXCEPT !.status = s] : s \in INVENTORY_STATUSES \cup {None, "bozuk"} }
    \cup { [BasePayload EXCEPT !.responsible = "U1"],
           [BasePayload EXCEPT !.inventory_no = InventoryNoOf[2]] }
    \cup InvalidPayloads

\* assign requests of the ledger
AssignInventoryPayloads ==
    { [BasePayload EXCEPT !.responsible = r] : r \in {"", "U1", "?"} }
    \cup { [BasePayload EXCEPT !.factory = ""],
           [BasePayload EXCEPT !.department = ""] }

ItemExists(item_id) == item_id \in 1..Len(inventory_items)

\* the checks create_inventory and update_inventory make on the resolved
\* references, in the order of the code; "" when all pass
ReferenceError(factory, hardware_type, brand, model, responsible, department) ==
    CASE factory = "" -> "Gecerli bir fabrika secin."
      [] hardware_type = "" -> "Gecerli bir donanim tipi secin."
      [] brand = "" -> "Gecerli bir marka secin."
      [] model = "" -> "Gecerli bir model secin."
      [] responsible = "?" -> "Gecerli bir kullanici secin."
      [] department = "" -> "Departman alani zorunludur."
      [] OTHER -> ""

\* A response keeps the status code; its error field keeps the message only
\* where the message is computed (the label of prepare_stock_metadata).

(***************************************************************************)
(* Inventory Asset Ledger.                                                 *)
(***************************************************************************)
create_inventory(inventory_no, factory, hardware_type, brand, model, responsible, department) ==
    LET op == "create_inventory"
        err == ReferenceError(factory, hardware_type, brand, model,
                              responsible, department)
        item == [inventory_no |-> inventory_no, computer_name |-> "",
                 factory |-> factory, department |-> department,
                 hardware_type |-> hardware_type, responsible |-> responsible,
                 brand |-> brand, model |-> model, serial_no |-> "",
                 ifs_no |-> "", related_machine_no |-> "", machine_no |-> "",
                 status |-> "aktif"]
        id == Len(inventory_items) + 1
        db1 == [Session EXCEPT !.items = Append(@, item)]
        db2 == add_inventory_event(db1, id, "Envanter olusturuldu")
    IN  IF inventory_no = ""
        THEN Reject(Resp(op, 0, 400, "", << >>))
        ELSE IF \E i \in 1..Len(inventory_items) :
                    inventory_items[i].inventory_no = inventory_no
        THEN Reject(Resp(op, 0, 409, "", << >>))
        ELSE IF err # ""
        THEN Reject(Resp(op, 0, 400, "", << >>))
        ELSE /\ Len(inventory_items) < MaxItems
             /\ EventRoom
             /\ Commit(db2)
             /\ Respond(Resp(op, id, 201, "", << >>))
             /\ UNCHANGED <<request_orders, users, pc>>

update_inventory(item_id, inventory_no, factory, hardware_type, brand, model, responsible, department, status_in) ==
    LET op == "update_inventory"
        item == inventory_items[item_id]
        no == IF inventory_no = "" THEN item.inventory_no ELSE inventory_no
        err == ReferenceError(factory, hardware_type, brand, model,
                              responsible, department)
        status == IF status_in = None THEN item.status ELSE status_in
        updated == [item EXCEPT !.inventory_no = no, !.computer_name = "",
                      !.factory = factory, !.department = department,
                      !.hardware_type = hardware_type,
                      !.responsible = responsible, !.brand = brand,
                      !.model = model, !.serial_no = "", !.ifs_no = "",
                      !.status = status]
        db1 == [Session EXCEPT !.items[item_id] = updated]
        db2 == add_inventory_event(db1, item_id, "Envanter bilgileri guncellendi")
    IN  IF ~ItemExists(item_id)
        THEN Reject(Resp(op, item_id, 404, "", << >>))
        ELSE IF no # item.inventory_no
                /\ \E i \in 1..Len(inventory_items) :
                      inventory_items[i].inventory_no = no
        THEN Reject(Resp(op, item_id, 409, "", << >>))
        ELSE IF err # ""
        THEN Reject(Resp(op, item_id, 400, "", << >>))
        ELSE IF status \notin INVENTORY_STATUSES
        THEN Reject(Resp(op, item_id, 400, "", << >>))
        ELSE /\ EventRoom
             /\ Commit(db2)
             /\ Respond(Resp(op, item_id, 200, "", << >>))
             /\ UNCHANGED <<request_orders, users, pc>>

assign_inventory(item_id, factory, responsible, department) ==
    LET op == "assign_inventory"
        item == inventory_items[item_id]
        updated == [item EXCEPT !.factory = factory, !.department = department,
                                !.responsible = responsible]
        db1 == [Session EXCEPT !.items[item_id] = updated]
        db2 == add_inventory_event(db1, item_id, "Atama guncellendi")
    IN  IF ~ItemExists(item_id)
        THEN Reject(Resp(op, item_id, 404, "", << >>))
        ELSE IF factory = ""
        THEN Reject(Resp(op, item_id, 400, "", << >>))
        ELSE IF responsible = "?"
        THEN Reject(Resp(op, item_id, 400, "", << >>))
        ELSE IF department = ""
        THEN Reject(Resp(op, item_id, 400, "", << >>))
        ELSE /\ EventRoom
             /\ Commit(db2)
             /\ Respond(Resp(op, item_id, 200, "", << >>))
             /\ UNCHANGED <<request_orders, users, pc>>

\* the ledger handlers that only set the status and append one event
SetInventoryStatus(op, item_id, status, event_type) ==
    LET db1 == [Session EXCEPT !.items[item_id].status = status]
        db2 == add_inventory_event(db1, item_id, event_type)
    IN  IF ~ItemExists(item_id)
        THEN Reject(Resp(op, item_id, 404, "", << >>))
        ELSE /\ EventRoom
             /\ Commit(db2)
             /\ Respond(Resp(op, item_id, 200, "", << >>))
             /\ UNCHANGED <<request_orders, users, pc>>

mark_inventory_faulty(item_id) ==
    SetInventoryStatus("mark_inventory_faulty", item_id, "arizali", "Ariza bildirimi")

scrap_inventory(item_id) ==
    SetInventoryStatus("scrap_inventory", item_id, "hurda", "Hurdaya ayirma")

\* str.lower on the role values the model uses
lower(s) ==
    CASE s = "SuperAdmin" -> "superadmin"
      [] s = "Admin" -> "admin"
      [] OTHER -> s

\* get_system_role(user), role being user.system_role and None for no user:
\* no logged-in user, an empty role and an unknown role count as "user"
get_system_role(role) ==
    LET normalized == IF role \in {None, ""} THEN "user" ELSE lower(strip(role))
    IN  IF normalized \in DOMAIN SYSTEM_ROLE_LEVELS THEN normalized ELSE "user"

\* a role check that lets an admin pass for any required role
has_system_role_AdminPasses(role, required) ==
    SYSTEM_ROLE_LEVELS[get_system_role(role)] >= 1

\* has_system_role(user, required)
has_system_role(role, required) ==
    SYSTEM_ROLE_LEVELS[get_system_role(role)] >=
        SYSTEM_ROLE_LEVELS[get_system_role(required)]

\* a restore that takes an item in any status
IsScrapped_Any(item) == TRUE

\* the state check of restore_inventory_from_scrap
IsScrapped(item) == lower(item.status) = "hurda"

restore_inventory_from_scrap(role, item_id) ==
    LET op == "restore_inventory_from_scrap"
        db1 == [Session EXCEPT !.items[item_id].status = "stokta"]
        db2 == add_inventory_event(db1, item_id, "Hurda kaydi geri alindi")
    IN  IF ~has_system_role(role, "superadmin")
        THEN Reject(Resp(op, item_id, 403, "", <<role>>))
        ELSE IF ~ItemExists(item_id)
        THEN Reject(Resp(op, item_id, 404, "", <<role>>))
        ELSE IF ~IsScrapped(inventory_items[item_id])
        THEN Reject(Resp(op, item_id, 400, "", <<role>>))
        ELSE /\ EventRoom
             /\ Commit(db2)
             /\ Respond(Resp(op, item_id, 200, "", <<role>>))
             /\ UNCHANGED <<request_orders, users, pc>>

(***************************************************************************)
(* Stock Pool Engine: pool population from the ledger.                     *)
(***************************************************************************)
StockIds == 1..MaxItems

StockExists(stock_id) == stock_id \in 1..Len(stock_items)

\* the query of move_inventory_to_stock: the StockItem with the highest id
\* whose inventory_item_id is the item; 0 when there is none
existing_stock_of(stock, item_id) ==
    LET ids == {s \in 1..Len(stock) : stock[s].inventory_item_id = item_id}
    IN  IF ids = {} THEN 0 ELSE CHOOSE s \in ids : \A t \in ids : t <= s

\* create_stock_item_from_inventory(item): a new StockItem row and its log
create_stock_item_from_inventory(db, item_id, item) ==
    LET stock_item == [source_type |-> "inventory", source_id |-> 0,
                       inventory_item_id |-> item_id, license_id |-> 0,
                       category |-> determine_stock_category_from_inventory(item),
                       quantity |-> 1, status |-> "stokta",
                       metadata |-> DropEmpty(build_inventory_stock_metadata(item))]
        db1 == [db EXCEPT !.stock = Append(@, stock_item)]
    IN  record_stock_log(db1, Len(db1.stock), "Stok girisi", "in", 1)

\* a move-to-stock that adds a row although the item has one
ReuseStockItem_AddsRow(db, item_id, item, existing) ==
    create_stock_item_from_inventory(db, item_id, item)

\* the branch of move_inventory_to_stock that reuses the existing StockItem
ReuseStockItem(db, item_id, item, existing) ==
    LET db1 == [db EXCEPT
                  !.stock[existing].status = "stokta",
                  !.stock[existing].quantity = 1,
                  !.stock[existing].source_type = "inventory",
                  !.stock[existing].inventory_item_id = item_id,
                  !.stock[existing].metadata =
                      DropEmpty(build_inventory_stock_metadata(item))]
    IN  record_stock_log(db1, existing, "Envanter stoga geri alindi", "in", 0)

\* the writes of move_inventory_to_stock after its conflict check.  item is
\* the InventoryItem as the handler loaded it and existing the id of the
\* StockItem it loaded (0 for none).  An attribute set to the value it was
\* loaded with is not written back.
MoveToStockWrites(db, item_id, item, existing) ==
    LET db1 == IF item.status = "stokta" THEN db
               ELSE [db EXCEPT !.items[item_id].status = "stokta"]
        db2 == add_inventory_event(db1, item_id, "Stok girisi")
    IN  IF existing # 0
        THEN ReuseStockItem(db2, item_id, item, existing)
        ELSE create_stock_item_from_inventory(db2, item_id, item)

\* a conflict check that looks for the wrong status
AlreadyInStock_WrongStatus(existing, existing_status) ==
    existing # 0 /\ existing_status = "devredildi"

\* the conflict check of move_inventory_to_stock:
\* existing_stock and existing_stock.status == "stokta"
AlreadyInStock(existing, existing_status) ==
    existing # 0 /\ existing_status = "stokta"

StatusOf(stock, stock_id) == IF stock_id = 0 THEN None ELSE stock[stock_id].status

move_inventory_to_stock(item_id) ==
    LET op == "move_inventory_to_stock"
        item == inventory_items[item_id]
        existing_stock == existing_stock_of(stock_items, item_id)
    IN  IF ~ItemExists(item_id)
        THEN Reject(Resp(op, item_id, 404, "", << >>))
        ELSE IF AlreadyInStock(existing_stock, StatusOf(stock_items, existing_stock))
        THEN Reject(Resp(op, item_id, 409, "", << >>))
        ELSE /\ EventRoom
             /\ Commit(MoveToStockWrites(Session, item_id, item, existing_stock))
             /\ Respond(Resp(op, item_id, 200, "", << >>))
             /\ UNCHANGED <<request_orders, users, pc>>

(***************************************************************************)
(* Stock Pool Engine: pool transitions.                                    *)
(***************************************************************************)
AssignPayloads == {EmptyDict, [responsible |-> " U2 "], [responsible |-> " "]}

\* metadata_defaults of assign_stock_item: the stored metadata overlaid with
\* the non-empty fields of the linked InventoryItem
AssignDefaults(db, stock_id) ==
    LET stock_item == db.stock[stock_id]
    IN  IF stock_item.inventory_item_id # 0
        THEN DictUpdate(stock_item.metadata,
                 DropEmpty(build_inventory_stock_metadata(
                     db.items[stock_item.inventory_item_id])))
        ELSE stock_item.metadata

\* a pool transition that leaves the linked InventoryItem alone
MirrorToInventory_Skipped(db, stock_id, status, event_type) == db
\* a pool transition that sets the status of the linked InventoryItem and
\* writes no InventoryEvent
MirrorToInventory_NoEvent(db, stock_id, status, event_type) ==
    LET item_id == db.stock[stock_id].inventory_item_id
    IN  IF item_id # 0 THEN [db EXCEPT !.items[item_id].status = status]
        ELSE db

\* the mirroring of a pool transition onto the linked InventoryItem
MirrorToInventory(db, stock_id, status, event_type) ==
    LET item_id == db.stock[stock_id].inventory_item_id
    IN  IF item_id # 0
        THEN add_inventory_event([db EXCEPT !.items[item_id].status = status],
                                 item_id, event_type)
        ELSE db

\* assign_stock_item, mark_stock_item_faulty and scrap_stock_item load the
\* StockItem and act on it whatever its status is: none of them reads it.
assign_stock_item(stock_id, payload) ==
    LET op == "assign_stock_item"
        stock_item == stock_items[stock_id]
        category_value == normalize_stock_category(stock_item.category, "envanter")
        metadata_defaults == AssignDefaults(Session, stock_id)
        assignment == prepare_stock_metadata(category_value, payload,
                                             metadata_defaults, TRUE)
        combined_metadata == DictUpdate(sanitize(metadata_defaults),
                                        sanitize(assignment.cleaned))
        db1 == [Session EXCEPT !.stock[stock_id].metadata = combined_metadata,
                               !.stock[stock_id].status = "devredildi"]
        db2 == MirrorToInventory(db1, stock_id, "aktif", "Stoktan atama yapildi")
        db3 == record_stock_log(db2, stock_id, "Stoktan atama yapildi", "out",
                                0 - Max(1, stock_item.quantity))
        db4 == IF Get(combined_metadata, "responsible") \notin {None, ""}
               THEN [db3 EXCEPT !.activity =
                        record_activity(@, "kullanici", "Stok atamasi", stock_id)]
               ELSE db3
    IN  IF ~StockExists(stock_id)
        THEN Reject(Resp(op, stock_id, 404, "", <<payload>>))
        ELSE IF ~assignment.ok
        THEN Reject(Resp(op, stock_id, 400, assignment.error, <<payload>>))
        ELSE /\ EventRoom
             /\ Commit(db4)
             /\ Respond(Resp(op, stock_id, 200, "", <<payload>>))
             /\ UNCHANGED <<request_orders, users, pc>>

\* mark_stock_item_faulty and scrap_stock_item: status, mirror, one log
SetStockStatus(op, stock_id, status, event_type, action, action_type, signed) ==
    LET stock_item == stock_items[stock_id]
        db1 == [Session EXCEPT !.stock[stock_id].status = status]
        db2 == MirrorToInventory(db1, stock_id, status, event_type)
        db3 == record_stock_log(db2, stock_id, action, action_type,
                                IF signed THEN 0 - Max(1, stock_item.quantity)
                                ELSE 0)
    IN  IF ~StockExists(stock_id)
        THEN Reject(Resp(op, stock_id, 404, "", << >>))
        ELSE /\ EventRoom
             /\ Commit(db3)
             /\ Respond(Resp(op, stock_id, 200, "", << >>))
             /\ UNCHANGED <<request_orders, users, pc>>

mark_stock_item_faulty(stock_id) ==
    SetStockStatus("mark_stock_item_faulty", stock_id, "arizali",
                   "Stok urunu arizali", "Stok urunu arizali isaretlendi",
                   "warning", FALSE)

scrap_stock_item(stock_id) ==
    SetStockStatus("scrap_stock_item", stock_id, "hurda",
                   "Stok urunu hurdaya ayrildi", "Stok urunu hurdaya ayrildi",
                   "out", TRUE)

(***************************************************************************)
(* Request workflow.  RequestLine (models.py) maps the columns id,         *)
(* hardware_type, brand, model, quantity, note and order_id; the category  *)
(* column added by ensure_request_line_category_column is not mapped.      *)
(***************************************************************************)
Line(id, hardware_type, brand, model, quantity) ==
    [id |-> id, hardware_type |-> hardware_type, brand |-> brand,
     model |-> model, quantity |-> quantity]

Order(order_no, department, group, lines) ==
    [order_no |-> order_no, department |-> department, group |-> group,
     lines |-> lines]

\* the orders seed_request_data inserts, with the ids the inserts give them
SeedOrders ==
    << Order("SIP-2024-015", "IT Operasyon", "acik",
             << Line(1, "Laptop", "Dell", "Latitude 5440", 2),
                Line(2, "Monitor", "Dell", "P2422H", 2) >>),
       Order("SIP-2024-018", "Satin Alma", "acik",
             << Line(3, "Yazici", "HP", "LaserJet Pro M404", 1) >>),
       Order("SIP-2024-009", "Operasyon", "kapandi",
             << Line(4, "Sunucu", "Lenovo", "ThinkSystem SR250", 1) >>),
       Order("SIP-2024-011", "Depo", "kapandi",
             << Line(5, "Tarayici", "Fujitsu", "fi-7160", 3) >>),
       Order("SIP-2024-006", "Finans", "iptal",
             << Line(6, "Masaustu", "HP", "ProDesk 400", 1) >>),
       Order("SIP-2024-010", "Pazarlama", "iptal",
             << Line(7, "Tablet", "Apple", "iPad Air", 4) >>) >>

OrderExists(order_id) == order_id \in 1..Len(request_orders)

RECURSIVE SumQuantity(_)
\* sum(line.quantity for line in lines)
SumQuantity(lines) ==
    IF lines = << >> THEN 0
    ELSE lines[1].quantity + SumQuantity(Tail(lines))

\* the attributes the mapped class RequestLine has; its constructor raises
\* TypeError for any other keyword
RequestLineAttributes ==
    {"id", "hardware_type", "brand", "model", "quantity", "note", "order_id",
     "order"}

\* the first return or exception of the loop over lines_payload in
\* create_request: 400 for a line without hardware type or with a quantity
\* <= 0, TypeError (500) when RequestLine(..., category=...) is reached
RECURSIVE CreateRequestLines(_, _)
CreateRequestLines(lines_payload, i) ==
    IF i > Len(lines_payload) THEN 201
    ELSE LET raw_line == lines_payload[i]
         IN  IF strip(raw_line.hardware_type) = "" THEN 400
             ELSE IF raw_line.quantity <= 0 THEN 400
             ELSE IF "category" \notin RequestLineAttributes THEN 500
             ELSE CreateRequestLines(lines_payload, i + 1)

\* the number of lines the loop of create_request appended to order.lines
\* before it returned or raised
RECURSIVE LinesAppended(_, _)
LinesAppended(lines_payload, i) ==
    IF i > Len(lines_payload) THEN 0
    ELSE LET raw_line == lines_payload[i]
         IN  IF strip(raw_line.hardware_type) = "" THEN 0
             ELSE IF raw_line.quantity <= 0 THEN 0
             ELSE IF "category" \notin RequestLineAttributes THEN 0
             ELSE 1 + LinesAppended(lines_payload, i + 1)

\* a request that ends with its pending objects written to the tables
AbandonSession_Persisted(pending_orders, r) ==
    /\ Respond(r)
    /\ request_orders' = pending_orders
    /\ UNCHANGED <<inventory_items, inventory_events, inventory_licenses,
                   stock_items, stock_logs, activity_logs, users, pc>>

\* the handler returns or raises after objects were added to the session
\* and before db.session.commit(): the session ends with the request, the
\* pending objects are never written
AbandonSession(pending_orders, r) ==
    /\ Respond(r)
    /\ UNCHANGED <<tables, pc>>

\* create_request: the order is added to the session at line 2114, the
\* lines are appended to it in the loop; a return or an exception of the
\* loop ends the request before the commit
create_request(order_no, lines_payload) ==
    LET op == "create_request"
        arg == <<order_no, lines_payload>>
        code == CreateRequestLines(lines_payload, 1)
        pending ==
            Append(request_orders,
                   Order(order_no, "Belirtilmedi", "acik",
                         [i \in 1..LinesAppended(lines_payload, 1) |->
                            Line(0, lines_payload[i].hardware_type, "", "",
                                 lines_payload[i].quantity)]))
        order == Order(order_no, "Belirtilmedi", "acik",
                       [i \in 1..Len(lines_payload) |->
                          Line(0, lines_payload[i].hardware_type, "", "",
                               lines_payload[i].quantity)])
    IN  IF order_no = ""
        THEN Reject(Resp(op, 0, 400, "", arg))
        ELSE IF \E o \in 1..Len(request_orders) :
                    request_orders[o].order_no = order_no
        THEN Reject(Resp(op, 0, 409, "", arg))
        ELSE IF lines_payload = << >>
        THEN Reject(Resp(op, 0, 400, "", arg))
        ELSE IF code = 500
        THEN AbandonSession(pending, Resp(op, 0, 500, "TypeError", arg))
        ELSE IF code = 400
        THEN AbandonSession(pending, Resp(op, 0, 400, "", arg))
        ELSE /\ request_orders' = Append(request_orders, order)
             /\ activity_logs' = record_activity(activity_logs, "talep",
                                     "Yeni talep olusturuldu",
                                     Len(request_orders) + 1)
             /\ Respond(Resp(op, Len(request_orders) + 1, 201, "", arg))
             /\ UNCHANGED <<inventory_items, inventory_events,
                            inventory_licenses, stock_items, stock_logs,
                            users, pc>>

\* parse_int_or_none on a request field: << >> is a missing or malformed
\* field (None), <<n>> the integer n
parse_int_or_none(field, default) == IF field = << >> THEN default ELSE field[1]

\* an action handler that sets the group of the order from the action,
\* whatever the group of the order is
update_request_status_Regroups(order_id, action_key, quantity_in, target_line_id) ==
    LET op == "update_request_status"
        arg == <<action_key, quantity_in, target_line_id>>
    IN  IF ~OrderExists(order_id)
        THEN Reject(Resp(op, order_id, 404, "", arg))
        ELSE /\ request_orders' =
                   [request_orders EXCEPT ![order_id].group =
                       IF action_key = "stok" THEN "kapandi" ELSE "iptal"]
             /\ Respond(Resp(op, order_id, 200, "", arg))
             /\ UNCHANGED <<inventory_items, inventory_events,
                            inventory_licenses, stock_items, stock_logs,
                            activity_logs, users, pc>>

\* update_request_status.  Line 2204 reads requested_quantity, a name that
\* is assigned nowhere in the function or the module: the read raises
\* NameError, the request ends with 500 and nothing is committed.  No call
\* gets past that line, so the fulfilment loop and the group change that
\* follow it (lines 2211-2321) are never executed.
update_request_status(order_id, action_key, quantity_in, target_line_id) ==
    LET op == "update_request_status"
        arg == <<action_key, quantity_in, target_line_id>>
        order == request_orders[order_id]
        quantity == parse_int_or_none(quantity_in, 1)
        target_lines ==
            IF target_line_id # 0
            THEN SelectSeq(order.lines, LAMBDA line : line.id = target_line_id)
            ELSE order.lines
        total_quantity == SumQuantity(target_lines)
    IN  IF ~OrderExists(order_id)
        THEN Reject(Resp(op, order_id, 404, "", arg))
        ELSE IF target_line_id # 0 /\ target_lines = << >>
        THEN Reject(Resp(op, order_id, 404, "", arg))
        ELSE IF action_key \notin {"stok", "cancel"}
        THEN Reject(Resp(op, order_id, 400, "", arg))
        ELSE Reject(Resp(op, order_id, 500, "NameError", arg))

(***************************************************************************)
(* move_inventory_to_stock handled by concurrent workers.  A worker first  *)
(* loads the InventoryItem and its latest StockItem and makes the conflict *)
(* check on what it loaded; its writes and its commit are a later step.    *)
(* The store orders commits but keeps no lock between a load and the       *)
(* commit that follows it: StockItem has no unique constraint on           *)
(* inventory_item_id and no version column.                                *)
(***************************************************************************)
Procs == {1, 2}

Idle == [state |-> "idle", item_id |-> 0, item_status |-> "", existing |-> 0,
         code |-> 0, loaded_at |-> 0, committed_at |-> 0]

\* the number of commits so far, used as the clock of loads and commits
Clock == Len(activity_logs)

\* lines 1631-1656: load the item and the existing StockItem, then the
\* 404 and 409 returns
MoveLoad(p, item_id) ==
    LET existing_stock == existing_stock_of(stock_items, item_id)
        loaded == [state |-> "loaded", item_id |-> item_id,
                   item_status |-> IF ItemExists(item_id)
                                   THEN inventory_items[item_id].status ELSE "",
                   existing |-> existing_stock, code |-> 0,
                   loaded_at |-> Clock, committed_at |-> 0]
    IN  /\ pc[p].state = "idle"
        /\ pc' = [pc EXCEPT ![p] =
                    IF ~ItemExists(item_id)
                    THEN [loaded EXCEPT !.state = "done", !.code = 404]
                    ELSE IF AlreadyInStock(existing_stock,
                                           StatusOf(stock_items, existing_stock))
                    THEN [loaded EXCEPT !.state = "done", !.code = 409]
                    ELSE loaded]
        /\ UNCHANGED <<tables, last>>

\* lines 1658-1687: the writes and the commit, made with the status and
\* the StockItem the worker loaded.  The other columns of the item are those
\* of its row: no request of this specification changes them after creation.
MoveCommit(p) ==
    LET item_id == pc[p].item_id
        item == [inventory_items[item_id] EXCEPT !.status = pc[p].item_status]
        db == MoveToStockWrites(Session, item_id, item, pc[p].existing)
    IN  /\ pc[p].state = "loaded"
        /\ EventRoom
        /\ Commit(db)
        /\ pc' = [pc EXCEPT ![p].state = "done", ![p].code = 200,
                             ![p].committed_at = Len(db.activity)]
        /\ UNCHANGED <<request_orders, users, last>>

\* the response is sent; the worker takes the next request
MoveReturn(p) ==
    /\ pc[p].state = "done"
    /\ pc' = [pc EXCEPT ![p] = Idle]
    /\ UNCHANGED <<tables, last>>

(***************************************************************************)
(* Specification of the ledger and the pool, one request at a time.        *)
(***************************************************************************)
Init ==
    /\ inventory_items = << >>
    /\ inventory_events = << >>
    /\ inventory_licenses = NoRows
    /\ stock_items = << >>
    /\ stock_logs = << >>
    /\ activity_logs = << >>
    /\ request_orders = << >>
    /\ users = NoRows
    /\ last = NoResp
    /\ pc = [p \in Procs |-> Idle]

CreateInventory ==
    \E p \in CreatePayloads :
        create_inventory(p.inventory_no, p.factory, p.hardware_type, p.brand,
                         p.model, p.responsible, p.department)

UpdateInventory ==
    \E i \in ItemIds, p \in UpdatePayloads :
        update_inventory(i, p.inventory_no, p.factory, p.hardware_type, p.brand,
                         p.model, p.responsible, p.department, p.status)

AssignInventory ==
    \E i \in ItemIds, p \in AssignInventoryPayloads :
        assign_inventory(i, p.factory, p.responsible, p.department)

MarkInventoryFaulty == \E i \in ItemIds : mark_inventory_faulty(i)

MoveInventoryToStock == \E i \in ItemIds : move_inventory_to_stock(i)

ScrapInventory == \E i \in ItemIds : scrap_inventory(i)

RestoreInventoryFromScrap ==
    \E role \in Roles, i \in ItemIds : restore_inventory_from_scrap(role, i)

AssignStockItem ==
    \E s \in StockIds, p \in AssignPayloads : assign_stock_item(s, p)

MarkStockItemFaulty == \E s \in StockIds : mark_stock_item_faulty(s)

ScrapStockItem == \E s \in StockIds : scrap_stock_item(s)

Next ==
    \/ CreateInventory
    \/ UpdateInventory
    \/ AssignInventory
    \/ MarkInventoryFaulty
    \/ MoveInventoryToStock
    \/ ScrapInventory
    \/ RestoreInventoryFromScrap
    \/ AssignStockItem
    \/ MarkStockItemFaulty
    \/ ScrapStockItem

Spec == Init /\ [][Next]_vars

(***************************************************************************)
(* Specification of concurrent move-to-stock requests: the items are       *)
(* created and pool items scrapped by requests handled one at a time.      *)
(***************************************************************************)
ConcurrentMoveLoad == \E p \in Procs, i \in ItemIds : MoveLoad(p, i)

ConcurrentMoveCommit == \E p \in Procs : MoveCommit(p)

ConcurrentMoveReturn == \E p \in Procs : MoveReturn(p)

NextConcurrent ==
    \/ CreateInventory
    \/ ScrapStockItem
    \/ ConcurrentMoveLoad
    \/ ConcurrentMoveCommit
    \/ ConcurrentMoveReturn

SpecConcurrent == Init /\ [][NextConcurrent]_vars

(***************************************************************************)
(* Specification of the request workflow on the seeded orders.             *)
(***************************************************************************)
InitRequest ==
    /\ inventory_items = << >>
    /\ inventory_events = << >>
    /\ inventory_licenses = NoRows
    /\ stock_items = << >>
    /\ stock_logs = << >>
    /\ activity_logs = << >>
    /\ request_orders = SeedOrders
    /\ users = NoRows
    /\ last = NoResp
    /\ pc = [p \in Procs |-> Idle]

OrderIds == 1..(Len(request_orders) + 1)
ActionKeys == {"stok", "cancel", "sil"}
MaxQuantity == 5
QuantityInputs == {<<q>> : q \in 0..MaxQuantity} \cup {<< >>}
LineIds == {0, 1, 2, 3, 9}

LinePayloads ==
    {[hardware_type |-> h, quantity |-> q] : h \in {"", "Laptop"}, q \in {0, 2}}

CreateRequest ==
    \E order_no \in {"", "SIP-2024-015", "SIP-9001"},
       lines \in {<< >>} \cup {<<l>> : l \in LinePayloads}
                \cup {<<l, m>> : l, m \in LinePayloads} :
        create_request(order_no, lines)

UpdateRequestStatus ==
    \E o \in OrderIds, a \in ActionKeys, q \in QuantityInputs, l \in LineIds :
        update_request_status(o, a, q, l)

NextRequest ==
    \/ CreateRequest
    \/ UpdateRequestStatus

SpecRequest == InitRequest /\ [][NextRequest]_vars

(***************************************************************************)
(* Properties.                                                             *)
(***************************************************************************)
PoolOps == {"assign_stock_item", "mark_stock_item_faulty", "scrap_stock_item"}

\* the step just taken is the handling of a pool transition on StockItem s
PoolStepOn(s) == last'.op \in PoolOps /\ last'.target = s

\* C1: assign, mark-faulty and scrap of the pool are accepted only for a
\* StockItem whose status is stokta; on a StockItem in devredildi, arizali
\* or hurda each is rejected and leaves every table unchanged.
C1_PoolTransitionsOnlyFromStokta ==
    [][\A s \in 1..Len(stock_items) :
          (PoolStepOn(s) /\ stock_items[s].status # "stokta")
              => (last'.code >= 400 /\ UNCHANGED tables)]_vars

\* C2: for every StockItem linked to an InventoryItem, the StockItem is
\* stokta exactly when the linked InventoryItem is stokta.
C2_PoolAndLedgerAgree ==
    \A s \in 1..Len(stock_items) :
        stock_items[s].inventory_item_id # 0 =>
            ((stock_items[s].status = "stokta") <=>
             (inventory_items[stock_items[s].inventory_item_id].status = "stokta"))

\* C3: a move-to-stock of an item right after a successful move-to-stock of
\* the same item is rejected with 409 and changes no table.
C3_SecondMoveConflicts ==
    [][(/\ last.op = "move_inventory_to_stock"
        /\ last.code = 200
        /\ last'.op = "move_inventory_to_stock"
        /\ last'.target = last.target)
          => (last'.code = 409 /\ UNCHANGED tables)]_vars

\* the InventoryEvent rows end with the event types given, all of item_id:
\* the successful calls that changed the item last
EventsEndWith(item_id, types) ==
    /\ Len(inventory_events) >= Len(types)
    /\ \A n \in 1..Len(types) :
          LET event == inventory_events[Len(inventory_events) - Len(types) + n]
          IN  event.item_id = item_id /\ event.event_type = types[n]

C3_Witness ==
    /\ last.op = "move_inventory_to_stock"
    /\ last.code = 409
    /\ EventsEndWith(last.target, <<"Stok girisi">>)
    /\ Len(stock_items) = 1
    /\ Len(stock_logs) = 1

\* the step just taken is an assign of the pool item of the InventoryItem
\* that the call before it moved to stock
AssignAfterMove ==
    /\ last.op = "move_inventory_to_stock"
    /\ last.code = 200
    /\ last'.op = "assign_stock_item"
    /\ last'.target = existing_stock_of(stock_items, last.target)

AssignedAndActive ==
    /\ inventory_items'[last.target].status = "aktif"
    /\ stock_items'[last'.target].status = "devredildi"

\* C4 as claimed: moving an InventoryItem to stock and then assigning the
\* resulting pool item always leaves the item aktif and the pool item
\* devredildi.
C4_MoveThenAssignAlways ==
    [][AssignAfterMove => AssignedAndActive]_vars

\* C4 amended: the assign after the move is accepted exactly when the item
\* or the request metadata names a responsible person, and then leaves the
\* item aktif and the pool item devredildi; otherwise it is rejected with
\* 400 for the field Sorumlu and changes no table.
C4_MoveThenAssign ==
    [][AssignAfterMove =>
         LET named == \/ inventory_items[last.target].responsible # ""
                      \/ normalize_value(Get(last'.arg[1], "responsible")) # ""
         IN  IF named
             THEN last'.code = 200 /\ AssignedAndActive
             ELSE /\ last'.code = 400
                  /\ last'.error = "Sorumlu"
                  /\ UNCHANGED tables]_vars

C4_Witness ==
    /\ last.op = "assign_stock_item"
    /\ last.code = 200
    /\ stock_items[last.target].status = "devredildi"
    /\ LET item_id == stock_items[last.target].inventory_item_id
       IN  /\ item_id # 0
           /\ inventory_items[item_id].status = "aktif"
           /\ EventsEndWith(item_id, <<"Stok girisi", "Stoktan atama yapildi">>)

StockRowsOf(item_id) ==
    {s \in 1..Len(stock_items) : stock_items[s].inventory_item_id = item_id}

\* C5: at most one StockItem references a given InventoryItem, and a
\* successful move-to-stock of an item that has a StockItem reuses that row:
\* no row is added, the row becomes stokta with quantity 1 and its metadata
\* are the non-empty fields of the item as it is now.
C5_OneStockRowPerItem ==
    /\ [](\A i \in 1..Len(inventory_items) : Cardinality(StockRowsOf(i)) <= 1)
    /\ [][(/\ last'.op = "move_inventory_to_stock"
           /\ last'.code = 200
           /\ StockRowsOf(last'.target) # {})
             => LET e == existing_stock_of(stock_items, last'.target)
                    now == inventory_items'[last'.target]
                IN  /\ Len(stock_items') = Len(stock_items)
                    /\ stock_items'[e].status = "stokta"
                    /\ stock_items'[e].quantity = 1
                    /\ stock_items'[e].inventory_item_id = last'.target
                    /\ \A k \in {"inventory_no", "department", "responsible",
                                  "factory", "hardware_type", "computer_name"} :
                          Get(stock_items'[e].metadata, k) =
                              (IF now[k] = "" THEN None ELSE now[k])]_vars

C5_Witness ==
    /\ last.op = "move_inventory_to_stock"
    /\ last.code = 200
    /\ Len(stock_logs) > 0
    /\ stock_logs[Len(stock_logs)].action = "Envanter stoga geri alindi"
    /\ \E s \in 1..Len(stock_logs) : stock_logs[s].action_type = "out"

\* two requests overlap when each loaded before the other committed
Overlap(p, q) ==
    /\ pc[p].loaded_at < pc[q].committed_at
    /\ pc[q].loaded_at < pc[p].committed_at

\* C6: of two overlapping move-to-stock requests for the same InventoryItem
\* at most one succeeds, and no InventoryItem ever has two StockItems in
\* status stokta.
C6_ConcurrentMovesConflict ==
    /\ \A i \in 1..Len(inventory_items) :
          Cardinality({s \in StockRowsOf(i) : stock_items[s].status = "stokta"}) <= 1
    /\ \A p, q \in Procs :
          (/\ p # q
           /\ pc[p].state = "done" /\ pc[q].state = "done"
           /\ pc[p].item_id = pc[q].item_id
           /\ Overlap(p, q))
              => ~(pc[p].code = 200 /\ pc[q].code = 200)

\* the step just taken is the handling of the request-order action a on
\* order o
RequestStep(o, a) ==
    /\ last'.op = "update_request_status"
    /\ last'.target = o
    /\ last'.arg[1] = a

\* the quantity and the line_id of the action just handled
StepQuantity == parse_int_or_none(last'.arg[2], 1)
StepLineId == last'.arg[3]

\* the lines the action just handled targets on order o
StepTargetLines(o) ==
    IF StepLineId = 0 THEN request_orders[o].lines
    ELSE SelectSeq(request_orders[o].lines, LAMBDA line : line.id = StepLineId)

\* the StockItems the step just taken added
CreatedStock == SubSeq(stock_items', Len(stock_items) + 1, Len(stock_items'))

\* C7: on an order with a single line of quantity q, a stok action of
\* quantity k creates exactly one StockItem of quantity k; for k < q the line
\* is left with q - k and the order in acik, for k = q the line is removed
\* and the order moves to kapandi.
C7_SingleLineFulfilment ==
    [][\A o \in 1..Len(request_orders) :
          LET lines == request_orders[o].lines
              q == lines[1].quantity
              k == StepQuantity
          IN  (/\ RequestStep(o, "stok")
               /\ Len(lines) = 1
               /\ StepLineId = 0
               /\ 1 <= k /\ k <= q)
                 => /\ last'.code = 200
                    /\ Len(CreatedStock) = 1
                    /\ CreatedStock[1].quantity = k
                    /\ IF k < q
                       THEN /\ request_orders'[o].lines =
                                  <<[lines[1] EXCEPT !.quantity = q - k]>>
                            /\ request_orders'[o].group = "acik"
                       ELSE /\ request_orders'[o].lines = << >>
                            /\ request_orders'[o].group = "kapandi"]_vars

\* C8: a stok action without line_id for quantity k, 1 <= k <= total,
\* takes min(line quantity, quantity still requested) from the lines in
\* ascending order: one StockItem per line touched with the amount taken,
\* the amounts sum to k, the remaining quantities sum to total - k, the
\* lines after the last touched one are unchanged, and the order ends in
\* kapandi if no line remains and in acik otherwise.
C8_MultiLineFulfilment ==
    [][\A o \in 1..Len(request_orders) :
          LET lines == request_orders[o].lines
              total == SumQuantity(lines)
              k == StepQuantity
              Taken(j) == Min(lines[j].quantity,
                              Max(0, k - SumQuantity(SubSeq(lines, 1, j - 1))))
              touched == {j \in 1..Len(lines) : Taken(j) > 0}
              left == request_orders'[o].lines
          IN  (/\ RequestStep(o, "stok")
               /\ StepLineId = 0
               /\ 1 <= k /\ k <= total)
                 => /\ last'.code = 200
                    /\ Len(CreatedStock) = Cardinality(touched)
                    /\ \A j \in touched : CreatedStock[j].quantity = Taken(j)
                    /\ SumQuantity(CreatedStock) = k
                    /\ SumQuantity(left) = total - k
                    /\ \A j \in (1..Len(lines)) \ touched :
                          \E n \in 1..Len(left) : left[n] = lines[j]
                    /\ request_orders'[o].group =
                          (IF left = << >> THEN "kapandi" ELSE "acik")]_vars

\* C9: a stok or cancel action whose quantity is below 1 or above the sum
\* of the quantities of the targeted lines is answered 400 and changes no
\* table.
C9_QuantityOutOfBoundsRejected ==
    [][\A o \in 1..Len(request_orders) :
          (/\ \/ RequestStep(o, "stok")
              \/ RequestStep(o, "cancel")
           /\ StepTargetLines(o) # << >>
           /\ \/ StepQuantity < 1
              \/ StepQuantity > SumQuantity(StepTargetLines(o)))
             => (last'.code = 400 /\ UNCHANGED tables)]_vars

\* C10: a cancel action with a quantity within bounds succeeds, moves the
\* order to iptal, creates no StockItem and no StockLog and leaves the
\* order's lines and their quantities as they were.
C10_CancelMovesToIptal ==
    [][\A o \in 1..Len(request_orders) :
          (/\ RequestStep(o, "cancel")
           /\ StepTargetLines(o) # << >>
           /\ 1 <= StepQuantity
           /\ StepQuantity <= SumQuantity(StepTargetLines(o)))
             => /\ last'.code = 200
                /\ request_orders'[o].group = "iptal"
                /\ request_orders'[o].lines = request_orders[o].lines
                /\ stock_items' = stock_items
                /\ stock_logs' = stock_logs]_vars

\* C11: every step that commits a change to the tables adds exactly one
\* ActivityLog row.
C11_OneActivityLogPerChange ==
    [][tables' # tables =>
         Len(activity_logs') = Len(activity_logs) + 1]_vars

LedgerOps ==
    {"create_inventory", "update_inventory", "assign_inventory",
     "mark_inventory_faulty", "move_inventory_to_stock", "scrap_inventory",
     "restore_inventory_from_scrap"}

\* C12: a successful ledger operation appends exactly one InventoryEvent,
\* of the item it acts on, and a ledger operation that returns an error
\* appends none.
C12_OneEventPerLedgerOperation ==
    [][last'.op \in LedgerOps =>
         IF last'.code \in {200, 201}
         THEN /\ Len(inventory_events') = Len(inventory_events) + 1
              /\ SubSeq(inventory_events', 1, Len(inventory_events)) =
                    inventory_events
              /\ inventory_events'[Len(inventory_events')].item_id = last'.target
         ELSE inventory_events' = inventory_events]_vars

C12_Witness ==
    /\ last.op = "restore_inventory_from_scrap"
    /\ last.code = 200
    /\ EventsEndWith(last.target, <<"Hurdaya ayirma", "Hurda kaydi geri alindi">>)

\* the StockItems that the step just taken put into the pool: new rows, and
\* rows whose status became stokta
EnteredPool ==
    {s \in 1..Len(stock_items') :
        /\ stock_items'[s].status = "stokta"
        /\ s \in 1..Len(stock_items) => stock_items[s].status # "stokta"}

\* the StockLogs the step just taken added
CreatedLogs == SubSeq(stock_logs', Len(stock_logs) + 1, Len(stock_logs'))

\* C13: a step that puts a StockItem into the pool writes exactly one
\* StockLog for it, with action_type in and quantity_change equal to the
\* StockItem's quantity after the step.
C13_PoolEntryLogged ==
    [][\A s \in EnteredPool :
          LET logs == SelectSeq(CreatedLogs, LAMBDA l : l.stock_item_id = s)
          IN  /\ Len(logs) = 1
              /\ logs[1].action_type = "in"
              /\ logs[1].quantity_change = stock_items'[s].quantity]_vars

\* the step just taken is a restore-from-scrap of item i by an actor whose
\* system_role is role
RestoreStep(role, i) ==
    /\ last'.op = "restore_inventory_from_scrap"
    /\ last'.target = i
    /\ last'.arg = <<role>>

C15_RestoreOnlyFromScrap ==
    [][\A i \in 1..Len(inventory_items) :
          RestoreStep("superadmin", i) =>
             IF inventory_items[i].status = "hurda"
             THEN /\ last'.code = 200
                  /\ inventory_items'[i].status = "stokta"
             ELSE /\ last'.code = 400
                  /\ UNCHANGED tables]_vars

\* a new item was scrapped, restored, and the restore repeated at once
C15_Witness ==
    /\ last.op = "restore_inventory_from_scrap"
    /\ last.arg = <<"superadmin">>
    /\ last.code = 400
    /\ inventory_items[last.target].status = "stokta"
    /\ EventsEndWith(last.target, <<"Envanter olusturuldu", "Hurdaya ayirma",
                                    "Hurda kaydi geri alindi">>)

(***************************************************************************)
(* Specification of the metadata validation alone: every step is one call  *)
(* of prepare_stock_metadata, whose arguments and result are kept in       *)
(* `last` (code 400 for the ValueError, which every caller answers with    *)
(* 400, and the label of the field in error; code 200 for a return).       *)
(***************************************************************************)
MetadataCategories == (DOMAIN STOCK_METADATA_FIELDS) \cup {"diger"}

MetadataPayloads ==
    { EmptyDict,
      [license_name |-> "Office"],
      [license_key |-> "K-1"],
      [license_name |-> "Office", license_key |-> "K-1"],
      [license_name |-> "Office", license_key |-> " "],
      [hardware_type |-> "Laptop"],
      [hardware_type |-> "Laptop", brand |-> "B1", model |-> "M1",
       inventory_no |-> "ENV-1"],
      [responsible |-> " U2 ", note |-> "x"] }

MetadataDefaults ==
    { EmptyDict,
      [license_key |-> "K-0"],
      [hardware_type |-> "Yazici", responsible |-> "U1"],
      [inventory_no |-> "ENV-1", hardware_type |-> "Laptop", brand |-> "B1",
       model |-> "M1", factory |-> "F1", department |-> "IT",
       responsible |-> "U1"] }

PrepareStockMetadata ==
    \E category \in MetadataCategories, payload \in MetadataPayloads,
       defaults \in MetadataDefaults, include_assignment_fields \in BOOLEAN :
        LET r == prepare_stock_metadata(category, payload, defaults,
                                        include_assignment_fields)
        IN  /\ last' = Resp("prepare_stock_metadata", 0,
                            IF r.ok THEN 200 ELSE 400, r.error,
                            <<category, payload, defaults,
                              include_assignment_fields, r.cleaned>>)
            /\ UNCHANGED <<tables, pc>>

NextMetadata == PrepareStockMetadata

SpecMetadata == Init /\ [][NextMetadata]_vars

\* the call just made is prepare_stock_metadata(category, payload, defaults,
\* include_assignment_fields)
MetadataCall(category, payload, defaults, include_assignment_fields) ==
    /\ last.op = "prepare_stock_metadata"
    /\ last.arg[1] = category
    /\ last.arg[2] = payload
    /\ last.arg[3] = defaults
    /\ last.arg[4] = include_assignment_fields

\* category declares a field with required = true
HasRequiredField(category) ==
    \E i \in 1..Len(STOCK_METADATA_FIELDS[category]) :
        STOCK_METADATA_FIELDS[category][i].required

\* C16: for every category of the schema table, prepare_stock_metadata with
\* an empty payload, empty defaults and the assignment fields included
\* fails exactly when the category declares a required field.
C16_EmptyMetadataFailsIffRequired ==
    \A c \in DOMAIN STOCK_METADATA_FIELDS :
        MetadataCall(c, EmptyDict, EmptyDict, TRUE) =>
            ((last.code = 400) <=> HasRequiredField(c))

C16_Witness ==
    /\ MetadataCall("talep", EmptyDict, EmptyDict, TRUE)
    /\ last.code = 400
    /\ last.error = "Donanim Tipi"

(***************************************************************************)
(* Specification of the manual stock entries, the license moves and the   *)
(* request actions, on the rows of the seed that these handlers read.      *)
(***************************************************************************)
MaxStock == 2

\* the handler returns an error before any write: nothing is committed
ReturnError(r) ==
    /\ Respond(r)
    /\ UNCHANGED <<tables, pc>>

\* seed_inventory_data: item_primary and item_retired, their events and
\* their licenses (the other three items take no part in a license move
\* of these two)
SeedItems ==
    << [inventory_no |-> "ENV-000123", computer_name |-> "PC-OFIS-01",
        factory |-> "Istanbul Merkez", department |-> "IT Operasyon",
        hardware_type |-> "Laptop", responsible |-> "Ahmet Kaya",
        brand |-> "Dell", model |-> "Latitude 5440",
        serial_no |-> "SN123456789", ifs_no |-> "IFS-00045",
        related_machine_no |-> "", machine_no |-> "PC-LAP-01",
        status |-> "aktif"],
       [inventory_no |-> "ENV-000318", computer_name |-> "PRN-FN-02",
        factory |-> "Ankara Veri Merkezi", department |-> "Finans",
        hardware_type |-> "Yazici", responsible |-> "Elif Sonmez",
        brand |-> "HP", model |-> "LaserJet Pro M404",
        serial_no |-> "SN564738291", ifs_no |-> "IFS-00221",
        related_machine_no |-> "10.0.0.45",
        machine_no |-> "AA:BC:31:18:00:02", status |-> "hurda"] >>

\* item_id 0 is a license without item (item_id NULL)
SeedLicenses ==
    << [item_id |-> 1, name |-> "Office 2021 - 123456789", status |-> "aktif"],
       [item_id |-> 1, name |-> "Visio Professional - 987654321",
        status |-> "aktif"],
       [item_id |-> 2, name |-> "HP ePrint Service", status |-> "pasif"] >>

\* seed_stock_data: three manual rows, each with its StockLog
SeedStock ==
    << [source_type |-> "manual", source_id |-> 0, inventory_item_id |-> 0,
        license_id |-> 0, category |-> "envanter", quantity |-> 8,
        status |-> "stokta",
        metadata |-> [department |-> "IT Operasyon",
                      factory |-> "Istanbul Merkez"]],
       [source_type |-> "manual", source_id |-> 0, inventory_item_id |-> 0,
        license_id |-> 0, category |-> "yazici", quantity |-> 15,
        status |-> "stokta",
        metadata |-> [department |-> "Lojistik",
                      factory |-> "Bursa Lojistik"]],
       [source_type |-> "manual", source_id |-> 0, inventory_item_id |-> 0,
        license_id |-> 0, category |-> "lisans", quantity |-> 4,
        status |-> "stokta",
        metadata |-> [department |-> "IT Operasyon"]] >>

RECURSIVE SeedStockLogs(_, _)
SeedStockLogs(db, i) ==
    IF i > Len(SeedStock) THEN db
    ELSE SeedStockLogs(record_stock_log(db, i, "Baslangic stok kaydi", "in",
                                        SeedStock[i].quantity), i + 1)

\* seed_initial_data on an empty database, as a session
SeedSession ==
    SeedStockLogs(
        [items |-> SeedItems, events |-> SeedEvents, licenses |-> SeedLicenses,
         stock |-> SeedStock, logs |-> << >>,
         activity |-> record_activity(<< >>, "envanter",
                         "Ornek envanter kayitlari yuklendi", 0)], 1)

InitStock ==
    /\ inventory_items = SeedSession.items
    /\ inventory_events = SeedSession.events
    /\ inventory_licenses = SeedSession.licenses
    /\ stock_items = SeedSession.stock
    /\ stock_logs = SeedSession.logs
    /\ activity_logs = SeedSession.activity
    /\ request_orders = SeedOrders
    /\ users = NoRows
    /\ last = NoResp
    /\ pc = [p \in Procs |-> Idle]

\* the model follows the program until MaxStock rows were added to the pool
StockRoom == Len(stock_items) < Len(SeedStock) + MaxStock

\* a manual entry validated against defaults that hold a license key
StockEntryMetadata_WithDefaults(category, metadata) ==
    prepare_stock_metadata(category, metadata, [license_key |-> "K-0"], FALSE)

\* lines 1805-1812: the metadata of a manual entry is validated without
\* defaults and without the assignment fields
StockEntryMetadata(category, metadata) ==
    prepare_stock_metadata(category, metadata, EmptyDict, FALSE)

\* a manual entry that takes any quantity
QuantityAccepted_Any(quantity) == TRUE

\* lines 1797-1798: a manual entry needs a quantity of at least 1
QuantityAccepted(quantity) == quantity >= 1

\* create_stock_entry.  The error of a refused metadata is the label of
\* the field: the message is "<label> alani zorunludur."
create_stock_entry(title, category_in, quantity_in, metadata) ==
    LET op == "create_stock_entry"
        arg == <<title, category_in, quantity_in, metadata>>
        category == normalize_stock_category(category_in, "envanter")
        quantity == parse_int_or_none(quantity_in, 1)
        r == StockEntryMetadata(category, metadata)
        stock_item == [source_type |-> "manual", source_id |-> 0,
                       inventory_item_id |-> 0, license_id |-> 0,
                       category |-> category, quantity |-> quantity,
                       status |-> "stokta", metadata |-> DropEmpty(r.cleaned)]
        db1 == [Session EXCEPT !.stock = Append(@, stock_item)]
        db2 == record_stock_log(db1, Len(db1.stock), "Manuel stok girisi",
                                "in", quantity)
    IN  IF strip(title) = ""
        THEN ReturnError(Resp(op, 0, 400, "Stok adi zorunludur.", arg))
        ELSE IF ~QuantityAccepted(quantity)
        THEN ReturnError(Resp(op, 0, 400, "Miktar en az 1 olmalidir.", arg))
        ELSE IF ~r.ok
        THEN ReturnError(Resp(op, 0, 400, r.error, arg))
        ELSE /\ StockRoom
             /\ Commit(db2)
             /\ Respond(Resp(op, Len(db2.stock), 201, "", arg))
             /\ UNCHANGED <<request_orders, users, pc>>

\* the payloads without license_key, with every combination of the other
\* fields of the lisans schema, and the same license names with a key
StockEntryMetadataPayloads ==
    { DictUpdate(a, c) :
        a \in {EmptyDict, [license_name |-> " "], [license_name |-> "Office"]},
        c \in {EmptyDict, [inventory_no |-> "ENV-1"]} }
    \cup
    { DictUpdate(a, [license_key |-> "K-1"]) :
        a \in {EmptyDict, [license_name |-> " "], [license_name |-> "Office"]} }

CreateStockEntry ==
    \E title \in {"", "Office"}, category \in {None, "lisans", "manuel"},
       quantity \in {<< >>, <<0>>, <<2>>},
       metadata \in StockEntryMetadataPayloads :
        create_stock_entry(title, category, quantity, metadata)

\* split_license_name on the license names of the seed: the part before
\* the first " - " and the part after it, both stripped; a name without
\* " - " has no key
split_license_name(value) ==
    CASE value = "Office 2021 - 123456789" ->
             [name |-> "Office 2021", key |-> "123456789"]
      [] value = "Visio Professional - 987654321" ->
             [name |-> "Visio Professional", key |-> "987654321"]
      [] value = "" -> [name |-> "", key |-> ""]
      [] OTHER -> [name |-> strip(value), key |-> ""]

\* create_stock_item_from_license(license): the StockItem of the license,
\* with the metadata taken from the license name and the item of the
\* license, and its StockLog
create_stock_item_from_license(db, license_id) ==
    LET license == db.licenses[license_id]
        parts == split_license_name(license.name)
        title == IF parts.name # "" THEN parts.name ELSE license.name
        has_item == license.item_id \in 1..Len(db.items)
        stock_item ==
            [source_type |-> "license", source_id |-> 0,
             inventory_item_id |-> 0, license_id |-> license_id,
             category |-> "lisans", quantity |-> 1, status |-> "stokta",
             metadata |->
                 [license_key |-> parts.key,
                  license_name |-> title,
                  inventory_no |-> IF has_item
                                   THEN db.items[license.item_id].inventory_no
                                   ELSE "",
                  department |-> IF has_item
                                 THEN db.items[license.item_id].department
                                 ELSE "",
                  factory |-> IF has_item
                              THEN db.items[license.item_id].factory
                              ELSE ""]]
        db1 == [db EXCEPT !.stock = Append(@, stock_item)]
    IN  record_stock_log(db1, Len(db1.stock), "Lisans stok girisi", "in", 1)

\* a flush that keeps the licenses taken from their item
DeleteOrphans_Kept(db) == db

\* InventoryItem.licenses is declared cascade="all, delete-orphan": the
\* flush deletes every license that was taken out of the collection of
\* its item
DeleteOrphans(db) ==
    [db EXCEPT !.licenses =
        [l \in {k \in DOMAIN db.licenses : db.licenses[k].item_id # 0} |->
            db.licenses[l]]]

\* move_license_to_stock.  The response carries the id of the new
\* StockItem and whether the license was found again after the commit.
move_license_to_stock(license_id) ==
    LET op == "move_license_to_stock"
        associated_item == inventory_licenses[license_id].item_id
        db1 == create_stock_item_from_license(Session, license_id)
        db2 == [db1 EXCEPT !.licenses[license_id].status = "pasif",
                           !.licenses[license_id].item_id = 0]
        db3 == IF associated_item # 0
               THEN add_inventory_event(db2, associated_item, "Lisans stoklandi")
               ELSE db2
        db4 == DeleteOrphans(db3)
    IN  IF license_id \notin DOMAIN inventory_licenses
        THEN ReturnError(Resp(op, license_id, 404, "", << >>))
        ELSE /\ StockRoom
             /\ Commit(db4)
             /\ Respond(Resp(op, license_id, 200, "",
                             <<Len(db4.stock),
                               license_id \in DOMAIN db4.licenses>>))
             /\ UNCHANGED <<request_orders, users, pc>>

LicenseIds == 1..(Len(SeedLicenses) + 1)

MoveLicenseToStock == \E l \in LicenseIds : move_license_to_stock(l)

\* a new order with a line of quantity 2 or 0
StockCreateRequest ==
    \E q \in {0, 2} :
        create_request("SIP-9001", <<[hardware_type |-> "Laptop", quantity |-> q]>>)

\* stok actions on the two open orders of the seed, on all their lines
StockUpdateRequestStatus ==
    \E o \in {1, 2}, q \in {<< >>, <<2>>, <<3>>} :
        update_request_status(o, "stok", q, 0)

NextStock ==
    \/ CreateStockEntry
    \/ MoveLicenseToStock
    \/ StockCreateRequest
    \/ StockUpdateRequestStatus

SpecStock == InitStock /\ [][NextStock]_vars

\* the call just answered is create_stock_entry for category lisans with a
\* title, a valid quantity and a metadata payload without license_key
LicenseEntryWithoutKey(r) ==
    /\ r.op = "create_stock_entry"
    /\ strip(r.arg[1]) # ""
    /\ r.arg[2] = "lisans"
    /\ parse_int_or_none(r.arg[3], 1) >= 1
    /\ "license_key" \notin DOMAIN r.arg[4]

\* the payload of the call names the license: license_name is not blank
NamesLicense(r) ==
    /\ "license_name" \in DOMAIN r.arg[4]
    /\ strip(r.arg[4]["license_name"]) # ""

NothingCreated ==
    /\ stock_items' = stock_items
    /\ stock_logs' = stock_logs
    /\ activity_logs' = activity_logs

\* C17 as stated: a manual entry of category lisans whose metadata lacks
\* license_key is refused with 400 and the label "Lisans Anahtari", whatever
\* the other metadata fields are, and creates no StockItem, StockLog or
\* ActivityLog.
C17_MissingKeyNamesKeyAlways ==
    [][LicenseEntryWithoutKey(last') =>
          /\ last'.code = 400
          /\ last'.error = "Lisans Anahtari"
          /\ NothingCreated]_vars

\* C17: a manual entry of category lisans whose metadata lacks license_key
\* is refused with 400 and creates no StockItem, StockLog or ActivityLog;
\* the message names "Lisans Anahtari" when the payload gives a license
\* name, and "Lisans Adi", the required field declared before it, when the
\* payload gives none.
C17_MissingKeyRefused ==
    [][LicenseEntryWithoutKey(last') =>
          /\ last'.code = 400
          /\ last'.error = IF NamesLicense(last') THEN "Lisans Anahtari"
                           ELSE "Lisans Adi"
          /\ NothingCreated]_vars

C17_Witness ==
    /\ LicenseEntryWithoutKey(last)
    /\ NamesLicense(last)
    /\ "inventory_no" \in DOMAIN last.arg[4]
    /\ last.code = 400
    /\ last.error = "Lisans Anahtari"

\* C19: after a successful move of a license to stock the InventoryLicense
\* row still exists, has no item and status pasif, and exactly one StockItem
\* was added: source_type license, category lisans, quantity 1, status
\* stokta, license_id the id of the license.
C19_LicenseKeptAfterMove ==
    [][(last'.op = "move_license_to_stock" /\ last'.code = 200) =>
          /\ last'.target \in DOMAIN inventory_licenses'
          /\ inventory_licenses'[last'.target].item_id = 0
          /\ inventory_licenses'[last'.target].status = "pasif"
          /\ Len(stock_items') = Len(stock_items) + 1
          /\ LET stock_item == stock_items'[Len(stock_items')]
             IN  /\ stock_item.source_type = "license"
                 /\ stock_item.category = "lisans"
                 /\ stock_item.quantity = 1
                 /\ stock_item.status = "stokta"
                 /\ stock_item.license_id = last'.target]_vars

\* C18: a call that answers with an error leaves every table as it was
\* before the call, also when the error comes after objects were added to
\* the session.
C18_ErrorsChangeNothing ==
    [][last'.code >= 400 => tables' = tables]_vars

\* create_request stopped in its loop, after the order was added to the
\* session, and no order of that number is in the table
C18_Witness ==
    /\ last.op = "create_request"
    /\ last.code = 500
    /\ last.arg[1] # ""
    /\ \A o \in 1..Len(request_orders) :
           request_orders[o].order_no # last.arg[1]

(***************************************************************************)
(* Specification of the user administration: create_user and delete_user  *)
(* on a users table that holds at least one superadmin.                    *)
(***************************************************************************)
MaxUsers == 3

\* the system roles the program writes into users.system_role (the seed
\* and create_user)
StoredRoles == {"superadmin", "admin", "user"}

UserNameOf(id) == CASE id = 1 -> "admin"
                    [] id = 2 -> "m.cetin"
                    [] id = 3 -> "a.kaya"
                    [] OTHER -> "z.ucar"

EmailOf(username) == CASE username = "admin" -> "admin@example.com"
                       [] username = "m.cetin" -> "merve.cetin@example.com"
                       [] username = "a.kaya" -> "ahmet.kaya@example.com"
                       [] OTHER -> "zeynep.ucar@example.com"

UserRow(id, system_role) ==
    [username |-> UserNameOf(id), email |-> EmailOf(UserNameOf(id)),
     system_role |-> system_role]

HasSuperadmin(us) == \E u \in DOMAIN us : us[u].system_role = "superadmin"

InitUsers ==
    /\ inventory_items = << >>
    /\ inventory_events = << >>
    /\ inventory_licenses = NoRows
    /\ stock_items = << >>
    /\ stock_logs = << >>
    /\ activity_logs = << >>
    /\ request_orders = << >>
    /\ users \in {us \in [1..MaxUsers ->
                              {UserRow(u, r) : u \in 1..MaxUsers,
                                               r \in StoredRoles}] :
                     /\ \A u \in 1..MaxUsers :
                            us[u].username = UserNameOf(u)
                     /\ HasSuperadmin(us)}
    /\ last = NoResp
    /\ pc = [p \in Procs |-> Idle]

\* the system role of the active user of the session; 0 is a session
\* without active user, and so is the id of a user that was deleted
ActorRole(actor) ==
    IF actor \in DOMAIN users THEN users[actor].system_role ELSE None

\* len(password) on the passwords of the model
PasswordLength(password) == CASE password = "" -> 0
                              [] password = "kisa" -> 4
                              [] OTHER -> 10

\* the attributes of the mapped class User (models.py 20-33); the keyword
\* arguments of User(...) in create_user
UserAttributes ==
    {"id", "username", "first_name", "last_name", "email", "role",
     "department", "preferred_theme", "password_hash", "system_role"}

CreateUserKeywords ==
    {"username", "first_name", "last_name", "email", "role", "department",
     "password_hash", "system_role", "must_change_password"}

\* create_user.  302 is the redirect to the admin panel, with the flashed
\* message as error.  User(...) is called with a keyword that is no
\* attribute of the class: the constructor raises TypeError, the request
\* ends with 500 and nothing is committed.
create_user(actor, username_in, email_in, password_in, system_role_in) ==
    LET op == "create_user"
        arg == <<actor, username_in, email_in, password_in, system_role_in>>
        username == strip(username_in)
        email == strip(email_in)
        password == strip(password_in)
        role0 == IF system_role_in \in {None, ""} THEN "user"
                 ELSE lower(strip(system_role_in))
        role1 == IF role0 = "" THEN "user" ELSE role0
        system_role == IF role1 \notin {"user", "admin"} THEN "user" ELSE role1
        id == IF DOMAIN users = {} THEN 1
              ELSE 1 + CHOOSE m \in DOMAIN users : \A u \in DOMAIN users : u <= m
        user == [username |-> username, email |-> email,
                 system_role |-> system_role]
    IN  IF ~has_system_role(ActorRole(actor), "superadmin")
        THEN ReturnError(Resp(op, 0, 302, "yetki", arg))
        ELSE IF username = "" \/ email = ""
        THEN ReturnError(Resp(op, 0, 302, "alanlar", arg))
        ELSE IF PasswordLength(password) < 8
        THEN ReturnError(Resp(op, 0, 302, "sifre", arg))
        ELSE IF \E u \in DOMAIN users : \/ users[u].username = username
                                        \/ users[u].email = email
        THEN ReturnError(Resp(op, 0, 302, "kullaniliyor", arg))
        ELSE IF ~(CreateUserKeywords \subseteq UserAttributes)
        THEN ReturnError(Resp(op, 0, 500, "TypeError", arg))
        ELSE /\ users' = [u \in (DOMAIN users) \cup {id} |->
                            IF u = id THEN user ELSE users[u]]
             /\ activity_logs' = record_activity(activity_logs, "kullanici",
                                                 "Kullanici olusturuldu", id)
             /\ Respond(Resp(op, id, 302, "", arg))
             /\ UNCHANGED <<inventory_items, inventory_events,
                            inventory_licenses, stock_items, stock_logs,
                            request_orders, pc>>

\* a count of the superadmins that counts the user to delete too
remaining_superadmins_CountsSelf(us, user_id) ==
    Cardinality({u \in DOMAIN us : lower(us[u].system_role) = "superadmin"})

\* lines 1323-1327: the users other than user_id whose system_role is
\* superadmin in lower case
remaining_superadmins(us, user_id) ==
    Cardinality({u \in (DOMAIN us) \ {user_id} :
                    lower(us[u].system_role) = "superadmin"})

\* delete_user
delete_user(actor, user_id) ==
    LET op == "delete_user"
        arg == <<actor>>
    IN  IF ~has_system_role(ActorRole(actor), "superadmin")
        THEN ReturnError(Resp(op, user_id, 302, "yetki", arg))
        ELSE IF user_id \notin DOMAIN users
        THEN ReturnError(Resp(op, user_id, 302, "bulunamadi", arg))
        ELSE IF /\ users[user_id].system_role = "superadmin"
                /\ remaining_superadmins(users, user_id) = 0
        THEN ReturnError(Resp(op, user_id, 302, "son super admin", arg))
        ELSE /\ users' = [u \in (DOMAIN users) \ {user_id} |-> users[u]]
             /\ activity_logs' = record_activity(activity_logs, "kullanici",
                                                 "Kullanici silindi", user_id)
             /\ Respond(Resp(op, user_id, 302, "", arg))
             /\ UNCHANGED <<inventory_items, inventory_events,
                            inventory_licenses, stock_items, stock_logs,
                            request_orders, pc>>

UserIds == 0..MaxUsers

CreateUser ==
    \E actor \in UserIds, username \in {"", "admin", "yeni"},
       email \in {"admin@example.com", "yeni@example.com"},
       password \in {"kisa", "Parola123!"},
       system_role \in {None, "admin", "superadmin"} :
        create_user(actor, username, email, password, system_role)

DeleteUser == \E actor \in UserIds, u \in UserIds : delete_user(actor, u)

NextUsers ==
    \/ CreateUser
    \/ DeleteUser

SpecUsers == InitUsers /\ [][NextUsers]_vars

\* user_id is the only user whose system_role is superadmin
OnlySuperadmin(us, user_id) ==
    /\ user_id \in DOMAIN us
    /\ us[user_id].system_role = "superadmin"
    /\ \A u \in (DOMAIN us) \ {user_id} : us[u].system_role # "superadmin"

\* C20: from a users table with a superadmin, create_user and delete_user
\* keep a user with system_role superadmin in the table; a delete_user of
\* the only superadmin is refused and leaves the users table as it was.
C20_SuperadminRemains ==
    [][/\ HasSuperadmin(users) => HasSuperadmin(users')
       /\ (last'.op = "delete_user" /\ OnlySuperadmin(users, last'.target)) =>
             /\ users' = users
             /\ last'.error # ""]_vars

\* the only superadmin asked for the deletion of their own account, after
\* another user was deleted, and was refused
C20_Witness ==
    /\ last.op = "delete_user"
    /\ last.error = "son super admin"
    /\ last.arg[1] = last.target
    /\ OnlySuperadmin(users, last.target)
    /\ Len(activity_logs) > 0

\* C21: a stok or cancel action on an existing order ends with the updated
\* order (200) or with an error of the taxonomy (400, 404, 409), never with
\* an unhandled failure; an action without quantity is handled as
\* quantity 1, which every order with a line accepts.
C21_ActionsEndInTaxonomy ==
    [][\A o \in 1..Len(request_orders) :
          (RequestStep(o, "stok") \/ RequestStep(o, "cancel"))
             => /\ last'.code \in {200, 400, 404, 409}
                /\ (/\ last'.arg[2] = << >>
                    /\ StepTargetLines(o) # << >>) => last'.code = 200]_vars

\* old is a prefix of new: every row of old is in new, at its place and
\* unchanged
IsPrefix(old, new) ==
    /\ Len(old) <= Len(new)
    /\ SubSeq(new, 1, Len(old)) = old

\* C22: every step keeps the InventoryEvent, StockLog and ActivityLog rows
\* that existed before it, unchanged; it can only add rows after them.
C22_LogsAppendOnly ==
    [][/\ IsPrefix(inventory_events, inventory_events')
       /\ IsPrefix(stock_logs, stock_logs')
       /\ IsPrefix(activity_logs, activity_logs')]_vars

\* a pool transition was logged after earlier rows of all three logs
C22_Witness ==
    /\ last.op \in {"assign_stock_item", "mark_stock_item_faulty",
                    "scrap_stock_item"}
    /\ last.code = 200
    /\ Len(stock_logs) >= 2
    /\ Len(inventory_events) >= 3
    /\ Len(activity_logs) >= 5

(***************************************************************************)
(* Specification of the pool transitions on StockItems with and without a  *)
(* linked InventoryItem: items moved to stock and manual entries.          *)
(***************************************************************************)
MaxLogs == 3

\* the model follows the pool until MaxLogs StockLog rows exist
LogRoom == Len(stock_logs) < MaxLogs

\* manual entries that pass the validation of their category
ManualEntries ==
    { [category |-> "lisans",
       metadata |-> [license_name |-> "Office", license_key |-> "K-1"]],
      [category |-> "manuel", metadata |-> [hardware_type |-> "Laptop"]] }

PoolCreateStockEntry ==
    /\ Len(stock_items) < MaxItems
    /\ \E m \in ManualEntries, quantity \in {<< >>, <<2>>} :
          create_stock_entry("Office", m.category, quantity, m.metadata)

\* the next free inventory number, with and without a responsible user
PoolCreateInventory ==
    \E r \in {"", "U1"} :
        LET p == [BasePayload EXCEPT
                    !.inventory_no = InventoryNoOf[Len(inventory_items) + 1],
                    !.responsible = r]
        IN  create_inventory(p.inventory_no, p.factory, p.hardware_type,
                             p.brand, p.model, p.responsible, p.department)

PoolMoveInventoryToStock == LogRoom /\ MoveInventoryToStock
PoolAssignStockItem == LogRoom /\ AssignStockItem
PoolMarkStockItemFaulty == LogRoom /\ MarkStockItemFaulty
PoolScrapStockItem == LogRoom /\ ScrapStockItem

NextPool ==
    \/ PoolCreateInventory
    \/ PoolCreateStockEntry
    \/ PoolMoveInventoryToStock
    \/ PoolAssignStockItem
    \/ PoolMarkStockItemFaulty
    \/ PoolScrapStockItem

SpecPool == Init /\ [][NextPool]_vars

\* the status a pool transition gives to the linked InventoryItem
MirroredStatus(op) == CASE op = "assign_stock_item" -> "aktif"
                        [] op = "mark_stock_item_faulty" -> "arizali"
                        [] OTHER -> "hurda"

C23_WitnessLinked ==
    /\ last.op = "assign_stock_item"
    /\ last.code = 200
    /\ stock_items[last.target].inventory_item_id # 0

\* the metadata of stock_item holds a non-empty value for every field that
\* the schema of its category marks required, the assignment_only fields
\* included
FullyDescribed(stock_item) ==
    LET fields == IF stock_item.category \in DOMAIN STOCK_METADATA_FIELDS
                  THEN STOCK_METADATA_FIELDS[stock_item.category] ELSE << >>
    IN  \A i \in 1..Len(fields) :
           fields[i].required =>
               Get(stock_item.metadata, fields[i].key) \notin {None, "", " "}

\* C24: after every step the metadata of every StockItem in status
\* devredildi holds a non-empty value for every required field of the
\* schema of its category, and an assign that is refused with 400 leaves
\* the StockItem, its status and its metadata, as it was.
C24_AssignedIsFullyDescribed ==
    [][/\ \A s \in 1..Len(stock_items') :
             stock_items'[s].status = "devredildi" =>
                 FullyDescribed(stock_items'[s])
       /\ (last'.op = "assign_stock_item" /\ last'.code = 400) =>
             stock_items' = stock_items]_vars

\* an item without responsible user was moved to stock and assigned with a
\* responsible user given in the request
C24_Witness ==
    /\ last.op = "assign_stock_item"
    /\ last.code = 200
    /\ stock_items[last.target].status = "devredildi"
    /\ stock_items[last.target].category = "envanter"
    /\ stock_items[last.target].metadata["responsible"] = "U2"
    /\ inventory_items[stock_items[last.target].inventory_item_id].responsible = ""

\* C25: a stok action without line_id whose quantity reaches into the
\* second line of the order creates one StockItem per line touched, and
\* the metadata of each carries the hardware_type, brand and model of the
\* line it was created from.
C25_StockCarriesItsLine ==
    [][\A o \in 1..Len(request_orders) :
          LET lines == request_orders[o].lines
              k == StepQuantity
          IN  (/\ RequestStep(o, "stok")
               /\ StepLineId = 0
               /\ Len(lines) >= 2
               /\ lines[1].quantity < k
               /\ k <= SumQuantity(lines))
                 => /\ last'.code = 200
                    /\ Len(CreatedStock) >= 2
                    /\ \A j \in 1..Len(CreatedStock) :
                          /\ CreatedStock[j].source_type = "request"
                          /\ CreatedStock[j].metadata["hardware_type"] =
                                 lines[j].hardware_type
                          /\ CreatedStock[j].metadata["brand"] = lines[j].brand
                          /\ CreatedStock[j].metadata["model"] =
                                 lines[j].model]_vars

\* C26: in every state every StockItem has a quantity of at least 1 and
\* every line of every order has a quantity of at least 1.
C26_QuantitiesPositive ==
    /\ \A s \in 1..Len(stock_items) : stock_items[s].quantity >= 1
    /\ \A o \in 1..Len(request_orders) :
          \A l \in 1..Len(request_orders[o].lines) :
              request_orders[o].lines[l].quantity >= 1

\* a manual entry and a license are in the pool beside the seeded rows and
\* a stok action on the two-line order was handled
C26_Witness ==
    /\ last.op = "update_request_status"
    /\ last.target = 1
    /\ \E s \in 1..Len(stock_items) :
          stock_items[s].source_type = "license"
    /\ \E s \in (Len(SeedStock) + 1)..Len(stock_items) :
          stock_items[s].source_type = "manual" /\ stock_items[s].quantity = 2

\* C27: an order in group iptal stays in group iptal at every step, and a
\* stok or cancel action on it adds no StockItem.
C27_CancelledStaysCancelled ==
    [][\A o \in 1..Len(request_orders) :
          request_orders[o].group = "iptal" =>
              /\ request_orders'[o].group = "iptal"
              /\ (RequestStep(o, "stok") \/ RequestStep(o, "cancel")) =>
                     stock_items' = stock_items]_vars

\* a stok action with a quantity within the lines of a cancelled order of
\* the seed was handled
C27_Witness ==
    /\ last.op = "update_request_status"
    /\ last.arg[1] = "stok"
    /\ last.arg[2] = <<1>>
    /\ last.arg[3] = 0
    /\ OrderExists(last.target)
    /\ request_orders[last.target].group = "iptal"

\* C28: an InventoryItem in status hurda changes its status only in a
\* restore-from-scrap of that item called by a superadmin.
C28_ScrapLeftOnlyByRestore ==
    [][\A i \in 1..Len(inventory_items) :
          (/\ inventory_items[i].status = "hurda"
           /\ inventory_items'[i].status # "hurda")
             => /\ last'.op = "restore_inventory_from_scrap"
                /\ last'.target = i
                /\ get_system_role(last'.arg[1]) = "superadmin"]_vars

\* the sum of quantity_change over the first n StockLog rows that belong
\* to StockItem s
RECURSIVE LoggedQuantity(_, _)
LoggedQuantity(s, n) ==
    IF n = 0 THEN 0
    ELSE LoggedQuantity(s, n - 1) +
         (IF stock_logs[n].stock_item_id = s THEN stock_logs[n].quantity_change
          ELSE 0)

\* C29: in every state the quantity_change values of the StockLog rows of a
\* StockItem sum to its quantity when its status is stokta or arizali and
\* to 0 when its status is devredildi or hurda.
C29_StockLogBalances ==
    \A s \in 1..Len(stock_items) :
        LoggedQuantity(s, Len(stock_logs)) =
            (IF stock_items[s].status \in {"stokta", "arizali"}
             THEN stock_items[s].quantity ELSE 0)

\* C30: in every state each InventoryItem in status stokta has exactly one
\* linked StockItem in status stokta; no operation, restore-from-scrap and
\* inventory update with a status field included, sets an item to stokta
\* without such a pool entry.
C30_StoktaHasPoolEntry ==
    \A i \in 1..Len(inventory_items) :
        inventory_items[i].status = "stokta" =>
            Cardinality({s \in StockRowsOf(i) :
                            stock_items[s].status = "stokta"}) = 1

====
